---- MODULE Spec2Model ----
(***************************************************************************)
(* A model of the step engine of data_bridge:                              *)
(*   app/utils/datastream2.py  DataStream.run, _resolve_path_from_params   *)
(*   app/utils/extractor.py    Extractor.extract, _resolve_query_params    *)
(*   app/utils/loader.py       Loader.load and the load handlers           *)
(*   app/utils/errors.py       LogAndTerminate                             *)
(*   app/utils/models.py       DataStore, StreamData, DestinationResponse  *)
(*                                                                         *)
(* Strings the code parses (raw parameter values, paths) are sequences of  *)
(* tokens, so that startswith / replace / split act on them as in the      *)
(* code.  Attribute names are read as the statements evidently intend      *)
(* (step.type is the step's step_type, step.output its output alias).      *)
(***************************************************************************)
EXTENDS Integers, Sequences, FiniteSets, TLC

VARIABLES
    steps,           \* self.config.steps: the validated step list
    pc,              \* where the call of run() is: running, returned, exited
    idx,             \* position of the for loop of run() (1-based)
    status,          \* data_store.status
    end_time,        \* data_store.end_time ("None" or "set")
    step_outputs,    \* data_store.step_outputs: alias -> StreamData
    dest_responses,  \* data_store.dest_responses
    started,         \* history: indices of the steps whose extractor,
                     \* function or loader run() has invoked, in order
    handled,         \* history: indices of the steps whose protocol handler
                     \* was called
    failed_at,       \* history: index of the step that raised (0: none)
    err,             \* the exception LogAndTerminate caught (NoError: none)
    now,             \* datetime.now() as the macros read it
    rcall,           \* the resolver call under examination
    rret,            \* what that call returned or raised
    resolutions,     \* history: the query parameters each sql extract of
                     \* the run resolved, in order
    vcfg,            \* the raw configuration handed to the validation
    vrun,            \* where _validate_config is, what it checked and built
    env,             \* the StreamData construction under examination
    runs,            \* history: how often run() was entered on the engine,
                     \* and the store as the latest entry found it
    fleet            \* a second engine instance and the objects on the heap

vars == <<steps, pc, idx, status, end_time, step_outputs, dest_responses,
          started, handled, failed_at, err, now, rcall, rret, resolutions,
          vcfg, vrun, env, runs, fleet>>

engineVars == <<steps, pc, idx, status, end_time, step_outputs,
                dest_responses, started, handled, failed_at, err>>

resolverVars == <<rcall, rret>>

validationVars == <<vcfg, vrun>>

instanceVars == <<runs, fleet>>

-----------------------------------------------------------------------------
(* Bounds *)

MaxSteps == 3

\* the longest parameter map examined
MaxParams == 2

-----------------------------------------------------------------------------
(* Strings as token sequences *)

RECURSIVE Join(_)
Join(s) == IF s = <<>> THEN "" ELSE Head(s) \o Join(Tail(s))

\* str.startswith(prefix)
StartsWith(value, prefix) == Len(value) > 0 /\ Head(value) = prefix

\* str.replace(prefix, ""): every occurrence goes
RECURSIVE Remove(_, _)
Remove(value, tok) ==
    IF value = <<>> THEN <<>>
    ELSE IF Head(value) = tok THEN Remove(Tail(value), tok)
    ELSE <<Head(value)>> \o Remove(Tail(value), tok)

\* str.split(":", 1)[1] of a value that starts with a "<word>:" token
SplitOnce(value) == Tail(value)


-----------------------------------------------------------------------------
(* Python values and the operational-state models of models.py *)

\* A Python value: its type and its text as tokens (list: its elements)
PyStr(tokens) == [type |-> "str", val |-> tokens]
PyInt(n) == [type |-> "int", val |-> <<ToString(n)>>]
PyNone == [type |-> "NoneType", val |-> <<>>]

\* StreamData(data_format=..., content=...)
StreamData(data_format, content) ==
    [data_format |-> data_format, content |-> content]

\* DestinationResponse(destination_name=..., status=..., records_processed=...)
DestinationResponse(destination_name, st, records_processed) ==
    [destination_name |-> destination_name, status |-> st,
     records_processed |-> records_processed]

\* DataStore.status: Literal["running", "success", "failed"]
RunStatus == {"running", "success", "failed"}

\* What a call gives back: a value, or an exception
Return(v) == [raised |-> FALSE, value |-> v, error |-> [type |-> "", args |-> <<>>]]
Raise(type, args) == [raised |-> TRUE, value |-> <<>>, error |-> [type |-> type, args |-> args]]
NoError == [type |-> "", args |-> <<>>]

-----------------------------------------------------------------------------
(* macros.py *)

Pad2(n) == IF n < 10 THEN "0" \o ToString(n) ELSE ToString(n)

_macro_school_year(t) == IF t.month <= 7 THEN t.year ELSE t.year + 1

\* strftime("%Y%M%D"): year, MINUTE, then the date as mm/dd/yy
_macro_yyyymmdd(t) ==
    <<ToString(t.year), Pad2(t.minute),
      Pad2(t.month), "/", Pad2(t.day), "/", Pad2(t.year % 100)>>

macro_registry == {"SCHOOL_YEAR", "YYYYMMDD"}

\* macro_registry[name]()
MacroCall(name, t) ==
    IF name = "SCHOOL_YEAR" THEN PyInt(_macro_school_year(t))
    ELSE PyStr(_macro_yyyymmdd(t))

-----------------------------------------------------------------------------
(* Extractor._resolve_query_params: a parameter map is the dict's items in   *)
(* insertion order, each [key, value]                                      *)

RECURSIVE ResolveQueryItems(_, _, _, _)
ResolveQueryItems(items, outputs, t, resolved) ==
    IF items = <<>> THEN Return(resolved)
    ELSE
      LET key == Head(items).key
          value == Head(items).value
          output_name == Join(Remove(value, "step:"))
          macro_name == Join(Remove(value, "macro:"))
          \* if value.startswith("step:"): ...
          afterStep ==
              IF StartsWith(value, "step:")
              THEN (key :> outputs[output_name].content) @@ resolved
              ELSE resolved
      IN IF StartsWith(value, "step:") /\ output_name \notin DOMAIN outputs
         THEN Raise("KeyError", <<output_name>>)
         \* if value.startswith("macro:"): ... else: ...
         ELSE IF StartsWith(value, "macro:")
         THEN IF macro_name \notin macro_registry
              THEN Raise("KeyError", <<macro_name>>)
              ELSE ResolveQueryItems(Tail(items), outputs, t,
                       (key :> MacroCall(macro_name, t)) @@ afterStep)
         ELSE ResolveQueryItems(Tail(items), outputs, t,
                  (key :> PyStr(value)) @@ afterStep)

_resolve_query_params(raw_query_params, outputs, t) ==
    ResolveQueryItems(raw_query_params, outputs, t, <<>>)

-----------------------------------------------------------------------------
(* datastream2.py _resolve_path_from_params: a path is a token sequence in   *)
(* which the placeholder of a parameter is one token                        *)

Placeholder(param_name) == "::" \o param_name \o "::"

\* str.replace(placeholder, replacement_value)
RECURSIVE ReplaceToken(_, _, _)
ReplaceToken(path, placeholder, replacement) ==
    IF path = <<>> THEN <<>>
    ELSE (IF Head(path) = placeholder THEN replacement ELSE <<Head(path)>>)
         \o ReplaceToken(Tail(path), placeholder, replacement)

\* the value a parameter is replaced by; <<>> is the empty string
ReplacementValue(param_value_source, t) ==
    IF StartsWith(param_value_source, "macro:")
    THEN LET macro_name == Join(SplitOnce(param_value_source))
         IN IF macro_name \in macro_registry
            THEN MacroCall(macro_name, t).val       \* str(macro_function())
            ELSE <<>>
    ELSE param_value_source

RECURSIVE _resolve_path_from_params(_, _, _)
_resolve_path_from_params(path, params, t) ==
    IF params = <<>> THEN path
    ELSE LET placeholder == Placeholder(Head(params).key)
             replacement_value == ReplacementValue(Head(params).value, t)
         IN _resolve_path_from_params(
                IF Join(replacement_value) /= ""
                THEN ReplaceToken(path, placeholder, replacement_value)
                ELSE path,
                Tail(params), t)

-----------------------------------------------------------------------------
(* Extractor._hydrate_query_with_params: a query string is a token sequence *)
(* in which the placeholder of a parameter is one token; the resolved       *)
(* parameters are the dict's items in insertion order.  A value is a Python *)
(* value or an envelope.                                                    *)

\* a StreamData as the value of a resolved parameter
EnvelopeValue(data_format, content) ==
    [type |-> "StreamData", val |-> content, data_format |-> data_format]

\* f"'{value}'"
Quoted(v) == "'" \o v \o "'"

\* ", ".join(f"'{value}'" for value in param_list)
RECURSIVE _get_combined_param_string(_)
_get_combined_param_string(param_list) ==
    IF param_list = <<>> THEN ""
    ELSE IF Len(param_list) = 1 THEN Quoted(Head(param_list))
    ELSE Quoted(Head(param_list)) \o ", "
             \o _get_combined_param_string(Tail(param_list))

\* the text a value would be substituted as
Substitute(value) ==
    IF value.type = "StreamData"
    THEN IF value.data_format = "python_string" THEN Quoted(Join(value.val))
         ELSE IF value.data_format = "python_int" THEN Join(value.val)
         ELSE _get_combined_param_string(value.val)
    ELSE Join(value.val)

\* the envelopes one of the branches replaces for
Substituted(value) ==
    value.type = "StreamData"
        => value.data_format \in {"python_string", "python_int", "python_list"}

\* str.replace returns the new string and leaves resolved_query_string as it
\* is; the result of every replace is dropped, so the string that goes on to
\* the next item, and is returned, is the raw one.  str.replace(old, value)
\* raises TypeError for a value that is no str.
RECURSIVE _hydrate_query_with_params(_, _)
_hydrate_query_with_params(raw_query_string, items) ==
    IF items = <<>> THEN Return(raw_query_string)
    ELSE LET key == Head(items).key
             value == Head(items).value
             resolved_query_string == raw_query_string
             replaced == ReplaceToken(resolved_query_string, Placeholder(key),
                                      <<Substitute(value)>>)
         IN IF value.type \notin {"StreamData", "str"}
            THEN Raise("TypeError", <<key>>)
            ELSE _hydrate_query_with_params(resolved_query_string,
                                            Tail(items))

\* resolved_query_params.items(): the keys in the order of the raw map
Items(raw_query_params, resolved) ==
    [k \in DOMAIN raw_query_params |->
        [key |-> raw_query_params[k].key,
         value |-> resolved[raw_query_params[k].key]]]

\* extract_step_config.query_file.read_text(): a query with a placeholder
\* for each parameter of the step
QueryText(raw_query_params) ==
    <<"select ">> \o [k \in DOMAIN raw_query_params |->
                        Placeholder(raw_query_params[k].key)]

-----------------------------------------------------------------------------
(* The configuration: steps that pass the validation of models.py           *)
(* (ExtractStep protocols sql, sftp, smb, google_drive; LoadStep protocols   *)
(* sftp, smb, google_drive), after sample.config.py                         *)

Aliases == {"raw", "ids", "report"}

ExtractStepConfig(name, protocol, source, output, query_params) ==
    [step_name |-> name, step_type |-> "extract", protocol |-> protocol,
     config |-> source, input |-> {}, output |-> {output},
     query_params |-> query_params]

TransformStepConfig(name, input, output) ==
    [step_name |-> name, step_type |-> "transform", protocol |-> "",
     config |-> "", input |-> input, output |-> output,
     query_params |-> <<>>]

LoadStepConfig(name, protocol, dest, input) ==
    [step_name |-> name, step_type |-> "load", protocol |-> protocol,
     config |-> dest, input |-> {input}, output |-> {},
     query_params |-> <<>>]

Param(key, value) == [key |-> key, value |-> value]

StepCatalog ==
    { ExtractStepConfig("get_data", "sql", "db1", "raw",
                        <<Param("campus_code", <<"123">>),
                          Param("as_of", <<"macro:", "YYYYMMDD">>)>>),
      ExtractStepConfig("get_ids", "sql", "db2", "ids",
                        <<Param("ids", <<"step:", "raw">>),
                          Param("as_of", <<"macro:", "YYYYMMDD">>)>>),
      ExtractStepConfig("get_year", "sql", "db1", "ids",
                        <<Param("year", <<"macro:", "SCHOOL_YEAR">>)>>),
      ExtractStepConfig("get_file", "smb", "fileshare", "report", <<>>),
      TransformStepConfig("format", {"raw"}, {"report"}),
      LoadStepConfig("send_data", "sftp", "sftp_server", "raw"),
      LoadStepConfig("send_report", "sftp", "sftp_backup", "report"),
      LoadStepConfig("archive", "smb", "fileshare", "report"),
      LoadStepConfig("send_mail", "smtp", "smtp_server", "report") }

Pipelines == UNION { [1..n -> StepCatalog] : n \in 1..MaxSteps }

TheAlias(S) == CHOOSE a \in S : TRUE

\* datetime.now()
Clock ==
    { [year |-> 2026, month |-> 7, day |-> 31, minute |-> 5],
      [year |-> 2026, month |-> 8, day |-> 1, minute |-> 42] }

NoTime == [year |-> 0, month |-> 0, day |-> 0, minute |-> 0]

-----------------------------------------------------------------------------
(* extractor.py: the dispatch table and the handlers.  What a database, a   *)
(* share or a server does is outside the program: a handler that does I/O   *)
(* may return or raise.                                                     *)

Extractor_protocol_to_method ==
    [sql |-> "_sql_extract", fileshare |-> "_fileshare_extract",
     google_drive |-> "_drive_extract"]

DataFrame(step) == [type |-> "DataFrame", val |-> <<step.step_name>>]
BytesIO(step) == [type |-> "BytesIO", val |-> <<step.step_name>>]

\* a handler returned None
NoneValue == StreamData("None", PyNone)

_sql_extract(step, outputs, t) ==
    LET resolved == _resolve_query_params(step.query_params, outputs, t)
        hydrated ==
            _hydrate_query_with_params(
                QueryText(step.query_params),
                Items(step.query_params, resolved.value))
    IN IF resolved.raised THEN {resolved}
       ELSE IF hydrated.raised THEN {hydrated}
       ELSE { Return(StreamData("dataframe", DataFrame(step))),
              Raise("DatabaseError", <<"external">>) }

_fileshare_extract(step) ==
    { Return(StreamData("file_buffer", BytesIO(step))),
      Raise("OSError", <<"external">>) }

_drive_extract(step) == { Return(NoneValue) }

ExtractMethod(method, step, outputs, t) ==
    IF method = "_sql_extract" THEN _sql_extract(step, outputs, t)
    ELSE IF method = "_fileshare_extract" THEN _fileshare_extract(step)
    ELSE _drive_extract(step)

-----------------------------------------------------------------------------
(* loader.py: the dispatch table and the handlers *)

Loader_protocol_to_method ==
    [smtp |-> "_smtp_load", fileshare |-> "_share_load",
     sftp |-> "_sftp_load", google_drive |-> "_drive_load"]

NoResponse == DestinationResponse("None", "None", "None")

\* _share_load and _sftp_load: the lookup of the input is outside the try,
\* the format check and the transfer are inside it
FileLoad(step, outputs) ==
    LET input == TheAlias(step.input)
    IN IF input \notin DOMAIN outputs THEN { Raise("KeyError", <<input>>) }
       ELSE IF outputs[input] = NoneValue
       THEN { Raise("AttributeError", <<"file_name">>) }
       ELSE IF outputs[input].data_format \notin {"file_buffer", "file_path"}
       THEN { Return(DestinationResponse(step.config, "failure", "None")) }
       ELSE { Return(DestinationResponse(step.config, "success", "1")),
              Return(DestinationResponse(step.config, "failure", "None")) }

\* load_step_config.input.content: input is a str or a list
_smtp_load(step, outputs) == { Raise("AttributeError", <<"content">>) }

_drive_load(step) == { Return(NoResponse) }

LoadMethod(method, step, outputs) ==
    IF method \in {"_share_load", "_sftp_load"} THEN FileLoad(step, outputs)
    ELSE IF method = "_smtp_load" THEN _smtp_load(step, outputs)
    ELSE _drive_load(step)

-----------------------------------------------------------------------------
(* The transform function of a step is the user's: it returns a mapping of  *)
(* its choosing, or raises                                                  *)

TransformFunction(step, input_data) ==
    { Return([a \in keys |->
                 StreamData("dataframe",
                            [type |-> "DataFrame", val |-> <<step.step_name, a>>])])
        : keys \in SUBSET Aliases }
    \cup { Raise("Exception", <<"external">>) }

\* {item: step_outputs.get(item) for item in step.input}
InputData(step, outputs) ==
    [item \in step.input |->
        IF item \in DOMAIN outputs THEN outputs[item] ELSE NoneValue]

\* dict.update
Update(outputs, new) == new @@ outputs

-----------------------------------------------------------------------------
(* datastream2.py DataStream.run, under errors.py LogAndTerminate *)

NoCall == [fn |-> "", params |-> <<>>, path |-> <<>>]

\* DataStore(stream_name=...): run_id from a fresh uuid, status "running",
\* no outputs, no responses.  n is the number of the store.
DataStore(n) ==
    [run_id |-> "run_" \o ToString(n), status |-> "running",
     step_outputs |-> <<>>, dest_responses |-> <<>>]

\* run() is entered for the first time, on the store __init__ made
FirstRun == [count |-> 1, at_start |-> DataStore(1)]

\* no engine, and no second engine
NoRun == [count |-> 0, at_start |-> DataStore(0)]
NoFleet == [active |-> 0]

\* no configuration is being validated, no envelope is being constructed
NoConfig == [stream_ok |-> TRUE, extract_tasks |-> <<>>, load_tasks |-> <<>>,
             transform_ok |-> TRUE, email_ok |-> TRUE]
NoValidation == [pc |-> "idle", trace |-> <<>>, built |-> {}, err |-> NoError]
NoEnvelope == [data_format |-> "", content_type |-> "", made |-> "idle"]

\* Extractor._sql_extract resolves the query parameters of the step: the
\* run's record of what each sql extract resolved
Resolved(step, i, outputs, t) ==
    LET resolved == _resolve_query_params(step.query_params, outputs, t)
    IN IF Extractor_protocol_to_method[step.protocol] = "_sql_extract"
          /\ ~resolved.raised
       THEN Append(resolutions, [step |-> i, params |-> resolved.value])
       ELSE resolutions

\* mutant: the loop stops one step short of the list
LoopDoneEarly(i) == i >= Len(steps)

\* for step in self.config.steps: the loop is over when the list is used up
LoopDone(i) == i > Len(steps)

\* mutant: the loop passes over a step
NextIndexSkips(i) == i + 2

\* the loop goes on with the next step of the list
NextIndex(i) == i + 1

\* mutant: the exception is logged inside the loop, which goes on
LogAndContinue(i) == [pc |-> "running", idx |-> i + 1]

\* LogAndTerminate.__call__: the exception ends run(); it is logged and the
\* process exits (sys.exit(1))
LogAndTerminate(i) == [pc |-> "exited", idx |-> i]

\* mutant: a status outside the Literal of DataStore.status
FinalStatusMistyped == "complete"

\* self.data_store.status = "success"
FinalStatus == "success"

\* mutant: the response is put in front of the earlier ones
PrependResponse(responses, dest_response) == <<dest_response>> \o responses

\* self.data_store.dest_responses.append(dest_response)
AppendResponse(responses, dest_response) == Append(responses, dest_response)

\* a step raised e: nothing of the store is written
StepRaises(e) ==
    /\ pc' = LogAndTerminate(idx).pc
    /\ idx' = LogAndTerminate(idx).idx
    /\ err' = e
    /\ failed_at' = idx
    /\ UNCHANGED <<status, end_time>>

\* a step completed: on to the next one
StepCompletes ==
    /\ idx' = NextIndex(idx)
    /\ UNCHANGED <<pc, err, failed_at, status, end_time>>

\* if "extract" in step.type
Extract ==
    /\ pc = "running"
    /\ ~LoopDone(idx)
    /\ steps[idx].step_type = "extract"
    /\ started' = Append(started, idx)
    /\ UNCHANGED <<steps, now, dest_responses, resolverVars, validationVars, env, instanceVars>>
    /\ LET step == steps[idx]
       IN IF step.protocol \notin DOMAIN Extractor_protocol_to_method
          THEN \* cls.protocol_to_method[protocol]
               /\ StepRaises([type |-> "KeyError", args |-> <<step.protocol>>])
               /\ UNCHANGED <<handled, step_outputs, resolutions>>
          ELSE /\ handled' = Append(handled, idx)
               /\ resolutions' = Resolved(step, idx, step_outputs, now)
               /\ \E out \in ExtractMethod(
                         Extractor_protocol_to_method[step.protocol],
                         step, step_outputs, now) :
                    IF out.raised
                    THEN StepRaises(out.error) /\ UNCHANGED step_outputs
                    ELSE \* self.data_store[step.output] = extracted_data
                         /\ step_outputs' =
                              Update(step_outputs,
                                     TheAlias(step.output) :> out.value)
                         /\ StepCompletes

\* if "transform" in step.type
Transform ==
    /\ pc = "running"
    /\ ~LoopDone(idx)
    /\ steps[idx].step_type = "transform"
    /\ started' = Append(started, idx)
    /\ UNCHANGED <<steps, now, dest_responses, handled, resolutions,
                   resolverVars, validationVars, env, instanceVars>>
    /\ LET step == steps[idx]
           input_data == InputData(step, step_outputs)
       IN \E output_data \in TransformFunction(step, input_data) :
            IF output_data.raised
            THEN StepRaises(output_data.error) /\ UNCHANGED step_outputs
            ELSE \* step_outputs.update(output_data)
                 /\ step_outputs' = Update(step_outputs, output_data.value)
                 /\ StepCompletes

\* if "load" in step.type
Load ==
    /\ pc = "running"
    /\ ~LoopDone(idx)
    /\ steps[idx].step_type = "load"
    /\ started' = Append(started, idx)
    /\ UNCHANGED <<steps, now, step_outputs, resolutions, resolverVars,
                   validationVars, env, instanceVars>>
    /\ LET step == steps[idx]
       IN IF step.protocol \notin DOMAIN Loader_protocol_to_method
          THEN \* cls.protocol_to_method[protocol]
               /\ StepRaises([type |-> "KeyError", args |-> <<step.protocol>>])
               /\ UNCHANGED <<handled, dest_responses>>
          ELSE /\ handled' = Append(handled, idx)
               /\ \E dest_response \in LoadMethod(
                         Loader_protocol_to_method[step.protocol],
                         step, step_outputs) :
                    IF dest_response.raised
                    THEN StepRaises(dest_response.error)
                         /\ UNCHANGED dest_responses
                    ELSE \* self.data_store.dest_responses.append(dest_response)
                         /\ dest_responses' =
                              AppendResponse(dest_responses,
                                             dest_response.value)
                         /\ StepCompletes

\* after the loop: end_time = datetime.now(); status = "success"
Finish ==
    /\ pc = "running"
    /\ LoopDone(idx)
    /\ end_time' = now
    /\ status' = FinalStatus
    /\ pc' = "returned"
    /\ UNCHANGED <<steps, idx, step_outputs, dest_responses, started,
                   handled, failed_at, err, now, resolutions, resolverVars,
                   validationVars, env, instanceVars>>

\* the clock datetime.now() reads goes on while run() is at work
Later(t) ==
    { u \in Clock : u.year * 400 + u.month * 32 + u.day
                       > t.year * 400 + t.month * 32 + t.day }

Tick ==
    /\ pc = "running"
    /\ now' \in Later(now)
    /\ UNCHANGED <<engineVars, resolutions, resolverVars, validationVars, env, instanceVars>>

\* DataStream.__init__: a DataStore with its defaults, run() about to start
Init ==
    /\ steps \in Pipelines
    /\ pc = "running"
    /\ idx = 1
    /\ status = "running"
    /\ end_time = NoTime
    /\ step_outputs = <<>>
    /\ dest_responses = <<>>
    /\ started = <<>>
    /\ handled = <<>>
    /\ failed_at = 0
    /\ err = NoError
    /\ now \in Clock
    /\ rcall = NoCall
    /\ rret = Return(<<>>)
    /\ resolutions = <<>>
    /\ vcfg = NoConfig
    /\ vrun = NoValidation
    /\ env = NoEnvelope
    /\ runs = FirstRun
    /\ fleet = NoFleet

Next == Extract \/ Transform \/ Load \/ Finish \/ Tick

Spec == Init /\ [][Next]_vars

-----------------------------------------------------------------------------
(* run() called again on the same DataStream, after it returned *)

MaxRuns == 2

\* the store as run() finds it on entry
StoreNow(run_id) ==
    [run_id |-> run_id, status |-> status,
     step_outputs |-> step_outputs, dest_responses |-> dest_responses]

\* stream.run() once more: the loop starts over on self.data_store, the
\* store __init__ made
RunAgain ==
    /\ pc = "returned"
    /\ runs.count < MaxRuns
    /\ pc' = "running"
    /\ idx' = 1
    /\ started' = <<>>
    /\ handled' = <<>>
    /\ runs' = [count |-> runs.count + 1,
                at_start |-> StoreNow(runs.at_start.run_id)]
    /\ UNCHANGED <<steps, status, end_time, step_outputs, dest_responses,
                   failed_at, err, now, resolutions, resolverVars,
                   validationVars, env, fleet>>

NextRerun == Next \/ RunAgain

SpecRerun == Init /\ [][NextRerun]_vars

\* C22: a second run() on the engine starts on a store of its own: status
\* running, a fresh run_id, no step_outputs and no dest_responses, nothing
\* of the first run in it
C22_SecondRunStartsFresh ==
    runs.count >= 2
        => /\ runs.at_start.status = "running"
           /\ runs.at_start.run_id /= DataStore(1).run_id
           /\ runs.at_start.step_outputs = <<>>
           /\ runs.at_start.dest_responses = <<>>

-----------------------------------------------------------------------------
(* Two DataStream instances built from one configuration, whose runs        *)
(* interleave step by step. The state variables of the engine hold the      *)
(* instance that is at work; fleet holds the one that waits, the DataStore  *)
(* object of each instance, and the objects themselves                      *)

MaxFleetSteps == 2

Instances == {1, 2}

\* one DataStore for every instance, whoever constructs it
SharedDataStore(instance) == 1

\* self.data_store = DataStore(): an object of the instance's own, its
\* step_outputs and dest_responses copies of the field defaults
NewDataStore(instance) == instance

FleetCatalog ==
    { step \in StepCatalog : step.step_name \in {"get_data", "format", "send_data"} }

FleetPipelines == UNION { [1..n -> FleetCatalog] : n \in 1..MaxFleetSteps }

\* the fields of the DataStore the engine variables hold
DataStoreNow ==
    [status |-> status, end_time |-> end_time,
     step_outputs |-> step_outputs, dest_responses |-> dest_responses]

EmptyDataStore ==
    [status |-> "running", end_time |-> NoTime,
     step_outputs |-> <<>>, dest_responses |-> <<>>]

\* the position of run() in an instance
RunNow ==
    [steps |-> steps, pc |-> pc, idx |-> idx, started |-> started,
     handled |-> handled, failed_at |-> failed_at, err |-> err,
     resolutions |-> resolutions]

InitFleet ==
    /\ steps \in FleetPipelines
    /\ pc = "running"
    /\ idx = 1
    /\ status = "running"
    /\ end_time = NoTime
    /\ step_outputs = <<>>
    /\ dest_responses = <<>>
    /\ started = <<>>
    /\ handled = <<>>
    /\ failed_at = 0
    /\ err = NoError
    /\ now \in Clock
    /\ rcall = NoCall
    /\ rret = Return(<<>>)
    /\ resolutions = <<>>
    /\ vcfg = NoConfig
    /\ vrun = NoValidation
    /\ env = NoEnvelope
    /\ runs = FirstRun
    /\ fleet = [active |-> 1,
                data_store |-> [i \in Instances |-> NewDataStore(i)],
                objects |-> [o \in { NewDataStore(i) : i \in Instances }
                               |-> EmptyDataStore],
                waiting |-> [steps |-> steps, pc |-> "running", idx |-> 1,
                             started |-> <<>>, handled |-> <<>>,
                             failed_at |-> 0, err |-> NoError,
                             resolutions |-> <<>>],
                left |-> EmptyDataStore]

\* the instance at work stops between two steps and the other goes on: what
\* it wrote is in its DataStore object, and the other reads its own
Switch ==
    /\ fleet.active \in Instances
    /\ LET resumed == 3 - fleet.active
           objects == [fleet.objects EXCEPT
                         ![fleet.data_store[fleet.active]] = DataStoreNow]
           store == objects[fleet.data_store[resumed]]
       IN /\ fleet' = [fleet EXCEPT !.active = resumed,
                                    !.objects = objects,
                                    !.waiting = RunNow,
                                    !.left = DataStoreNow]
          /\ steps' = fleet.waiting.steps
          /\ pc' = fleet.waiting.pc
          /\ idx' = fleet.waiting.idx
          /\ started' = fleet.waiting.started
          /\ handled' = fleet.waiting.handled
          /\ failed_at' = fleet.waiting.failed_at
          /\ err' = fleet.waiting.err
          /\ resolutions' = fleet.waiting.resolutions
          /\ status' = store.status
          /\ end_time' = store.end_time
          /\ step_outputs' = store.step_outputs
          /\ dest_responses' = store.dest_responses
    /\ UNCHANGED <<now, resolverVars, validationVars, env, runs>>

NextFleet == Next \/ Switch

SpecFleet == InitFleet /\ [][NextFleet]_vars

\* C25: when the runs of two instances interleave, an instance that goes on
\* finds its store as it left it: status, step_outputs and dest_responses
\* hold nothing the other instance wrote meanwhile
C25_RunStoresIsolated ==
    [][ (fleet.active \in Instances /\ fleet'.active /= fleet.active) =>
          /\ status' = fleet.left.status
          /\ step_outputs' = fleet.left.step_outputs
          /\ dest_responses' = fleet.left.dest_responses ]_vars

\* both instances have written to their stores, the one at work after the
\* other had its turn
C25_Witness ==
    /\ fleet.active = 1
    /\ idx > 1
    /\ fleet.waiting.idx > 1
    /\ step_outputs /= <<>>
    /\ fleet.left.step_outputs /= <<>>
    /\ step_outputs /= fleet.left.step_outputs
    /\ dest_responses /= fleet.left.dest_responses

-----------------------------------------------------------------------------
(* The run of the step engine: claims *)

IsPrefixOfStepList(seq) ==
    /\ Len(seq) <= Len(steps)
    /\ \A k \in 1..Len(seq) : seq[k] = k

\* the steps that ran to their end
Completed == { k \in 1..Len(started) : started[k] /= failed_at }

\* C1: the steps invoked in a run are a prefix of the configured list in
\* declaration order; a step starts only when all before it have completed,
\* none is skipped, reordered or invoked twice
C1_StepsRunInDeclarationOrder ==
    /\ IsPrefixOfStepList(started)
    /\ failed_at = 0 => Len(started) = idx - 1
    /\ failed_at /= 0 => Len(started) = failed_at
    /\ \A j, k \in 1..Len(started) : started[j] = started[k] => j = k

C1_Witness ==
    /\ pc = "returned"
    /\ Len(started) >= 2
    /\ Len(started) = Len(steps)

\* C2: when a step raises, the loop stops there: no extractor, function,
\* loader or handler of a later step of the list is invoked
C2_RaiseStopsIteration ==
    failed_at /= 0 =>
        /\ pc = "exited"
        /\ \A k \in 1..Len(started) : started[k] <= failed_at
        /\ \A k \in 1..Len(handled) : handled[k] <= failed_at

C2_Witness ==
    /\ failed_at /= 0
    /\ failed_at < Len(steps)
    /\ Len(started) = failed_at

LoadStepsBefore(k) == { j \in 1..(k - 1) : steps[j].step_type = "load" }

\* C3: when step k raises, the run store has status failed and holds the
\* step_outputs and dest_responses written by steps 1..k-1; for [A (extract,
\* succeeds), B (transform, raises)] it ends with A's output, no
\* dest_responses and status failed
C3_FailedRunKeepsPartialState ==
    failed_at /= 0 =>
        /\ status = "failed"
        /\ Len(dest_responses) = Cardinality(LoadStepsBefore(failed_at))
        /\ (/\ Len(steps) = 2
            /\ steps[1].step_name = "get_data"
            /\ steps[2].step_type = "transform"
            /\ failed_at = 2)
           => /\ DOMAIN step_outputs = {"raw"}
              /\ dest_responses = <<>>

\* C4: status is always one of running, success, failed, and the only
\* changes of it are running -> success and running -> failed
C4_StatusMonotonic ==
    /\ [](status \in RunStatus)
    /\ [][status' /= status =>
            (status = "running" /\ status' \in {"success", "failed"})]_vars

C4_Witness ==
    /\ status = "success"
    /\ Len(started) >= 1

\* C5: status is success with end_time set exactly when every configured
\* step has completed without raising; while a step is pending or after a
\* step has raised, status is not success and end_time is unset
C5_SuccessOnlyAfterLastStep ==
    /\ (status = "success") <=> (end_time /= NoTime)
    /\ (status = "success") <=> (pc = "returned")
    /\ pc = "returned" => (failed_at = 0 /\ Len(started) = Len(steps))
    /\ (Len(started) < Len(steps) \/ failed_at /= 0)
          => (status /= "success" /\ end_time = NoTime)

C5_Witness ==
    /\ status = "success"
    /\ end_time /= NoTime
    /\ Len(started) = Len(steps)
    /\ Len(steps) >= 2

\* C6: every alias present in step_outputs is a declared output of a step
\* that has already completed in the run
C6_OutputsOnlyOfCompletedSteps ==
    \A a \in DOMAIN step_outputs :
        \E k \in Completed : a \in steps[k].output


\* the names the logged message holds:
\* f"An error occurred in '{self.func.__name__}':\n{e}"
Mentions(e) == {"run"} \cup { e.args[k] : k \in 1..Len(e.args) }

Unregistered(step) ==
    \/ /\ step.step_type = "extract"
       /\ step.protocol \notin DOMAIN Extractor_protocol_to_method
    \/ /\ step.step_type = "load"
       /\ step.protocol \notin DOMAIN Loader_protocol_to_method

\* C10: dispatching an extract or load step whose protocol has no entry in
\* the dispatch table fails at once with an error that names the step,
\* before any handler is called
C10_UnregisteredProtocolNamesStep ==
    \A k \in 1..Len(started) :
        Unregistered(steps[k]) =>
            /\ failed_at = k
            /\ \A j \in 1..Len(handled) : handled[j] /= k
            /\ steps[k].step_name \in Mentions(err)

\* the load steps that ran to their end, and the i-th of them
CompletedLoads == { k \in Completed : steps[k].step_type = "load" }

IthCompletedLoad(i) ==
    CHOOSE k \in CompletedLoads :
        Cardinality({ j \in CompletedLoads : j <= k }) = i

C16_StoreAppendOnly ==
    [][ /\ \A a \in DOMAIN step_outputs :
             /\ a \in DOMAIN step_outputs'
             /\ step_outputs'[a] = step_outputs[a]
        /\ Len(dest_responses') >= Len(dest_responses)
        /\ \A i \in DOMAIN dest_responses :
             dest_responses'[i] = dest_responses[i] ]_vars

\* the value a step's query_params give to a key
RawParam(step, key) ==
    SelectSeq(step.query_params, LAMBDA p : p.key = key)[1].value

\* C17: two parameters of one run that reference the same macro resolve to
\* the same value, however much time passes between the two resolutions
C17_SameMacroSameValue ==
    \A i, j \in DOMAIN resolutions :
      \A k1 \in DOMAIN resolutions[i].params,
         k2 \in DOMAIN resolutions[j].params :
        LET v1 == RawParam(steps[resolutions[i].step], k1)
            v2 == RawParam(steps[resolutions[j].step], k2)
        IN (StartsWith(v1, "macro:") /\ v1 = v2)
             => resolutions[i].params[k1] = resolutions[j].params[k2]

\* C18: the failure of a step reaches the caller of run() as a raised error
\* that names the step's step_name and step_type; the process is not ended
\* inside the engine
C18_FailureRaisedToCaller ==
    failed_at /= 0
        => /\ pc = "raised"
           /\ steps[failed_at].step_name \in Mentions(err)
           /\ steps[failed_at].step_type \in Mentions(err)

\* what the handler of an extract step returns when it returns
ExtractedData(step) ==
    IF Extractor_protocol_to_method[step.protocol] = "_sql_extract"
    THEN StreamData("dataframe", DataFrame(step))
    ELSE StreamData("file_buffer", BytesIO(step))

\* C26: once an extract step has completed, step_outputs[step.output] is the
\* StreamData its handler returned, and stays so for every later step of the
\* run
C26_ExtractOutputStoredAndKept ==
    \A k \in Completed :
        steps[k].step_type = "extract" =>
            /\ TheAlias(steps[k].output) \in DOMAIN step_outputs
            /\ step_outputs[TheAlias(steps[k].output)] = ExtractedData(steps[k])

\* the step at idx is about to run and is a transform step
TransformRuns ==
    /\ pc = "running"
    /\ ~LoopDone(idx)
    /\ steps[idx].step_type = "transform"

\* C27: a transform step that completes adds or rewrites in step_outputs
\* only aliases declared in its output field; a key the function returned
\* that is not a declared output alias is not stored
C27_OnlyDeclaredOutputsStored ==
    [][ (TransformRuns /\ failed_at' = 0) =>
          \A a \in DOMAIN step_outputs' :
              (a \notin DOMAIN step_outputs \/ step_outputs'[a] /= step_outputs[a])
                  => a \in steps[idx].output ]_vars

\* the step at idx is about to run and is a load step with protocol smtp
\* whose input is in the store
SmtpLoadRuns ==
    /\ pc = "running"
    /\ ~LoopDone(idx)
    /\ steps[idx].step_type = "load"
    /\ steps[idx].protocol = "smtp"
    /\ steps[idx].input \subseteq DOMAIN step_outputs

\* C28: a load step with protocol smtp whose input is in the store is handed
\* to its handler as the email message the step's email_builder made of that
\* input: the step completes with its response appended to dest_responses,
\* or fails with the error of the delivery, never on the form of its input
C28_SmtpLoadGetsEmailMessage ==
    [][ SmtpLoadRuns =>
          \/ /\ failed_at' = 0
             /\ Len(dest_responses') = Len(dest_responses) + 1
          \/ /\ failed_at' = idx
             /\ err'.type \in {"SMTPException", "OSError"} ]_vars

\* the step at idx is about to run, is a transform or load step, and lists
\* an input alias that is not in the store
RunsWithMissingInput ==
    /\ pc = "running"
    /\ ~LoopDone(idx)
    /\ steps[idx].step_type \in {"transform", "load"}
    /\ ~(steps[idx].input \subseteq DOMAIN step_outputs)

\* C29: a transform or load step that lists an input alias missing from
\* step_outputs fails, and fails before its function or its load handler is
\* invoked
C29_MissingInputFailsBeforeInvocation ==
    [][ RunsWithMissingInput =>
          /\ failed_at' = idx
          /\ handled' = handled ]_vars

\* C30: a run store with status 'success' holds only responses with status
\* 'success'
C30_SuccessMeansAllDelivered ==
    status = "success" =>
        \A i \in DOMAIN dest_responses : dest_responses[i].status = "success"

-----------------------------------------------------------------------------
(* The resolvers on their own: a parameter map, a path and a run store are   *)
(* drawn, and one resolver is applied                                       *)

ParamKeys == {"date", "ids", "school_year"}

RawValues ==
    { <<"123">>,
      <<"step:", "raw">>, <<"step:", "ids">>,
      <<"macro:", "SCHOOL_YEAR">>, <<"macro:", "YYYYMMDD">>,
      <<"macro:", "FISCAL_YEAR">> }

\* the items of a dict: no key twice
ParamMaps ==
    { m \in UNION { [1..n -> [key : ParamKeys, value : RawValues]]
                      : n \in 0..MaxParams } :
        \A j, k \in 1..Len(m) : m[j].key = m[k].key => j = k }

Paths ==
    { <<"archive/", "::date::", "/report.csv">>,
      <<"q_", "::school_year::", "_", "::ids::", ".sql">> }

Stores ==
    { <<>>,
      "raw" :> StreamData("python_list", [type |-> "list", val |-> <<"1", "2">>]),
      ("raw" :> StreamData("python_list", [type |-> "list", val |-> <<"1", "2">>]))
        @@ ("ids" :> StreamData("python_string", PyStr(<<"42">>))) }

InitResolve ==
    /\ steps = <<>>
    /\ pc = "resolving"
    /\ idx = 1
    /\ status = "running"
    /\ end_time = NoTime
    /\ step_outputs \in Stores
    /\ dest_responses = <<>>
    /\ started = <<>>
    /\ handled = <<>>
    /\ failed_at = 0
    /\ err = NoError
    /\ now \in Clock
    /\ rcall \in [fn : {""}, params : ParamMaps, path : Paths]
    /\ rret = Return(<<>>)
    /\ resolutions = <<>>
    /\ vcfg = NoConfig
    /\ vrun = NoValidation
    /\ env = NoEnvelope
    /\ runs = NoRun
    /\ fleet = NoFleet

\* Loader._resolve_email_recipients(recipients, step_outputs): recipients is
\* a str or a list of str.  resolved_recipients is a list only for a str,
\* whose characters the loop then appends one by one (no character starts
\* with "step:"); for a list the first extend or append is on None.  The
\* function has no return statement.
_resolve_email_recipients(recipients, outputs) ==
    IF recipients.type = "str" THEN Return(PyNone)
    ELSE IF recipients.val = <<>> THEN Return(PyNone)
    ELSE LET recipient == Head(recipients.val)
             output_name == Join(Remove(recipient, "step:"))
         IN IF StartsWith(recipient, "step:")
            THEN IF output_name \notin DOMAIN outputs
                 THEN Raise("KeyError", <<output_name>>)
                 ELSE Raise("AttributeError", <<"extend">>)
            ELSE Raise("AttributeError", <<"append">>)

\* email_params.recipients as one str, and as the list of the values
RecipientsStr(value) == [type |-> "str", val |-> value]
RecipientsList(params) ==
    [type |-> "list", val |-> [k \in DOMAIN params |-> params[k].value]]

\* Extractor._resolve_query_params(raw_query_params, step_outputs)
ResolveQuery ==
    /\ rcall.fn = ""
    /\ rcall' = [rcall EXCEPT !.fn = "_resolve_query_params"]
    /\ rret' = _resolve_query_params(rcall.params, step_outputs, now)
    /\ UNCHANGED <<engineVars, now, resolutions, validationVars, env, instanceVars>>

\* _resolve_path_from_params(path, params, macro_reg)
ResolvePath ==
    /\ rcall.fn = ""
    /\ rcall' = [rcall EXCEPT !.fn = "_resolve_path_from_params"]
    /\ rret' = Return(_resolve_path_from_params(rcall.path, rcall.params, now))
    /\ UNCHANGED <<engineVars, now, resolutions, validationVars, env, instanceVars>>

\* Loader._resolve_email_recipients(recipients, step_outputs), recipients a
\* str
ResolveEmailStr ==
    /\ rcall.fn = ""
    /\ Len(rcall.params) = 1
    /\ rcall' = [rcall EXCEPT !.fn = "_resolve_email_recipients(str)"]
    /\ rret' = _resolve_email_recipients(
                   RecipientsStr(rcall.params[1].value), step_outputs)
    /\ UNCHANGED <<engineVars, now, resolutions, validationVars, env, instanceVars>>

\* Loader._resolve_email_recipients(recipients, step_outputs), recipients a
\* list
ResolveEmailList ==
    /\ rcall.fn = ""
    /\ rcall' = [rcall EXCEPT !.fn = "_resolve_email_recipients(list)"]
    /\ rret' = _resolve_email_recipients(
                   RecipientsList(rcall.params), step_outputs)
    /\ UNCHANGED <<engineVars, now, resolutions, validationVars, env, instanceVars>>

NextResolve ==
    ResolveQuery \/ ResolvePath \/ ResolveEmailStr \/ ResolveEmailList

SpecResolve == InitResolve /\ [][NextResolve]_vars

\* the alias or macro name a raw value refers to
RefName(value) == Join(Tail(value))

\* C7: resolving a parameter map replaces a raw value step:<alias>, alias
\* present in step_outputs, by step_outputs[alias].content: the resolved map
\* holds the content for that key, not the raw string
C7_StepReferenceResolvesToContent ==
    (rcall.fn = "_resolve_query_params" /\ ~rret.raised) =>
        \A k \in 1..Len(rcall.params) :
            LET p == rcall.params[k]
            IN (StartsWith(p.value, "step:")
                  /\ RefName(p.value) \in DOMAIN step_outputs)
               => /\ p.key \in DOMAIN rret.value
                  /\ rret.value[p.key] = step_outputs[RefName(p.value)].content

\* C8: a parameter map that holds step:<alias> for an alias not in
\* step_outputs always fails resolution, in every parameter map
C8_MissingAliasFailsResolution ==
    rcall.fn /= "" =>
        \A k \in 1..Len(rcall.params) :
            LET p == rcall.params[k]
            IN (StartsWith(p.value, "step:")
                  /\ RefName(p.value) \notin DOMAIN step_outputs)
               => rret.raised

\* C9: a raw value macro:<name> whose name is not in the macro registry is a
\* hard failure of the resolution, in every parameter map
C9_UnknownMacroFailsResolution ==
    rcall.fn /= "" =>
        \A k \in 1..Len(rcall.params) :
            LET p == rcall.params[k]
            IN (StartsWith(p.value, "macro:")
                  /\ RefName(p.value) \notin macro_registry)
               => rret.raised

\* the tokens of a path
Tokens(path) == { path[k] : k \in DOMAIN path }

\* every placeholder of the path has its key in the parameter map
PlaceholdersCovered(path, params) ==
    \A key \in ParamKeys :
        Placeholder(key) \in Tokens(path)
            => \E k \in DOMAIN params : params[k].key = key

\* the date of t as eight digits
EightDigits(t) == ToString(t.year) \o Pad2(t.month) \o Pad2(t.day)

\* C19: a path resolved with a parameter map that has a key for each of its
\* placeholders holds no ::name:: of any key of the map; and
\* archive/::date::/report.csv with {date: macro:YYYYMMDD} becomes
\* archive/<8 digits>/report.csv
C19_PathPlaceholdersResolved ==
    (rcall.fn = "_resolve_path_from_params"
       /\ PlaceholdersCovered(rcall.path, rcall.params))
    => /\ \A k \in DOMAIN rcall.params :
             Placeholder(rcall.params[k].key) \notin Tokens(rret.value)
       /\ (/\ rcall.path = <<"archive/", "::date::", "/report.csv">>
           /\ rcall.params = <<Param("date", <<"macro:", "YYYYMMDD">>)>>)
          => Join(rret.value)
               = "archive/" \o EightDigits(now) \o "/report.csv"

\* what a resolver made of one raw value: a failure, or the value as text
Outcome(r, text) ==
    IF r.raised THEN [failed |-> TRUE, text |-> ""]
    ELSE [failed |-> FALSE, text |-> text]

QueryOutcome(p, outputs, t) ==
    LET r == _resolve_query_params(<<p>>, outputs, t)
    IN Outcome(r, IF r.raised THEN "" ELSE Join(r.value[p.key].val))

PathOutcome(p, t) ==
    Outcome(Return(<<>>),
            Join(_resolve_path_from_params(<<Placeholder(p.key)>>, <<p>>, t)))

EmailOutcome(p, outputs) ==
    LET r == _resolve_email_recipients(RecipientsStr(p.value), outputs)
    IN Outcome(r, IF r.raised THEN "" ELSE Join(r.value.val))

\* C20: one raw value and one run store give the same outcome, the same
\* value or a failure in all three, whether resolved as a path_params, a
\* query_params or an email_params entry
C20_ResolversEquivalent ==
    rcall.fn /= "" =>
        \A k \in DOMAIN rcall.params :
            LET p == rcall.params[k]
            IN /\ QueryOutcome(p, step_outputs, now) = PathOutcome(p, now)
               /\ QueryOutcome(p, step_outputs, now)
                     = EmailOutcome(p, step_outputs)


-----------------------------------------------------------------------------
(* The hydration of a query on its own: a query and resolved parameters are *)
(* drawn, and _hydrate_query_with_params is applied                         *)

ResolvedValues ==
    { PyStr(<<"123">>), PyInt(2026),
      EnvelopeValue("python_string", <<"42">>),
      EnvelopeValue("python_int", <<"7">>),
      EnvelopeValue("python_list", <<"1", "2", "3">>),
      EnvelopeValue("python_list", <<"3", "1">>) }

\* the items of a dict: no key twice
ResolvedMaps ==
    { m \in UNION { [1..n -> [key : ParamKeys, value : ResolvedValues]]
                      : n \in 0..MaxParams } :
        \A j, k \in 1..Len(m) : m[j].key = m[k].key => j = k }

Queries ==
    { <<"select * from t where id in (", "::ids::", ") and y = ",
        "::school_year::">>,
      <<"select * from t where d = ", "::date::", " or e = ", "::date::">> }

InitHydrate ==
    /\ steps = <<>>
    /\ pc = "hydrating"
    /\ idx = 1
    /\ status = "running"
    /\ end_time = NoTime
    /\ step_outputs = <<>>
    /\ dest_responses = <<>>
    /\ started = <<>>
    /\ handled = <<>>
    /\ failed_at = 0
    /\ err = NoError
    /\ now = NoTime
    /\ rcall \in [fn : {""}, params : ResolvedMaps, path : Queries]
    /\ rret = Return(<<>>)
    /\ resolutions = <<>>
    /\ vcfg = NoConfig
    /\ vrun = NoValidation
    /\ env = NoEnvelope
    /\ runs = NoRun
    /\ fleet = NoFleet

\* Extractor._hydrate_query_with_params(raw_query_string,
\* resolved_query_params)
HydrateQuery ==
    /\ pc = "hydrating"
    /\ rcall.fn = ""
    /\ rcall' = [rcall EXCEPT !.fn = "_hydrate_query_with_params"]
    /\ rret' = _hydrate_query_with_params(rcall.path, rcall.params)
    /\ UNCHANGED <<engineVars, now, resolutions, validationVars, env, instanceVars>>

NextHydrate == HydrateQuery

SpecHydrate == InitHydrate /\ [][NextHydrate]_vars

\* N items joined by the separator, in the order of the list
RECURSIVE JoinedBy(_, _)
JoinedBy(list, separator) ==
    IF list = <<>> THEN ""
    ELSE IF Len(list) = 1 THEN Head(list)
    ELSE Head(list) \o separator \o JoinedBy(Tail(list), separator)

\* the texts that stand for a value: a scalar as its one value, a list as
\* its items in order, with or without quotes
Renderings(value) ==
    IF value.type = "StreamData" /\ value.data_format = "python_list"
    THEN { JoinedBy(value.val, ", "), JoinedBy(value.val, ","),
           JoinedBy([k \in DOMAIN value.val |-> Quoted(value.val[k])], ", "),
           JoinedBy([k \in DOMAIN value.val |-> Quoted(value.val[k])], ",") }
    ELSE { Join(value.val), Quoted(Join(value.val)) }

\* C21: the hydrated query has, at every placeholder whose key is supplied,
\* the value of the key: a scalar as one value, a list of N as its N items in
\* order joined by a separator; there it differs from the raw query
C21_EveryPlaceholderSubstituted ==
    rcall.fn = "_hydrate_query_with_params" =>
        \A k \in DOMAIN rcall.params, j \in DOMAIN rcall.path :
            rcall.path[j] = Placeholder(rcall.params[k].key)
                => /\ ~rret.raised
                   /\ j \in DOMAIN rret.value
                   /\ rret.value[j] /= rcall.path[j]
                   /\ rret.value[j] \in Renderings(rcall.params[k].value)

-----------------------------------------------------------------------------
(* The dispatch and the handlers on their own: a step and a run store are   *)
(* drawn, and Extractor.extract, Loader.load or one handler is applied      *)

\* the protocol Literals of the step models: ExtractStep, LoadStep
ExtractProtocols == {"sql", "sftp", "smb", "google_drive"}
LoadProtocols == {"smtp", "sftp", "smb", "google_drive"}

\* Extractor.extract
Extractor_extract(step, outputs, t) ==
    IF step.protocol \notin DOMAIN Extractor_protocol_to_method
    THEN { Raise("KeyError", <<step.protocol>>) }
    ELSE ExtractMethod(Extractor_protocol_to_method[step.protocol],
                       step, outputs, t)

\* Loader.load
Loader_load(step, outputs) ==
    IF step.protocol \notin DOMAIN Loader_protocol_to_method
    THEN { Raise("KeyError", <<step.protocol>>) }
    ELSE LoadMethod(Loader_protocol_to_method[step.protocol], step, outputs)

ExtractHandlers ==
    { Extractor_protocol_to_method[p] : p \in DOMAIN Extractor_protocol_to_method }

LoadHandlers ==
    { Loader_protocol_to_method[p] : p \in DOMAIN Loader_protocol_to_method }

\* one validated step for each protocol of the step models
HandlerSteps ==
    { ExtractStepConfig("get_" \o p, p, "source", "raw",
                        <<Param("campus_code", <<"123">>)>>)
        : p \in ExtractProtocols }
    \cup { LoadStepConfig("put_" \o p, p, "destination", a)
             : p \in LoadProtocols, a \in {"raw", "report"} }

HandlerStores ==
    { <<>>,
      "raw" :> StreamData("dataframe", [type |-> "DataFrame", val |-> <<"t">>]),
      "raw" :> StreamData("file_buffer", [type |-> "BytesIO", val |-> <<"t">>]),
      "report" :> StreamData("file_path", [type |-> "Path", val |-> <<"t">>]) }

InitHandlers ==
    /\ steps = <<>>
    /\ pc = "calling"
    /\ idx = 1
    /\ status = "running"
    /\ end_time = NoTime
    /\ step_outputs \in HandlerStores
    /\ dest_responses = <<>>
    /\ started = <<>>
    /\ handled = <<>>
    /\ failed_at = 0
    /\ err = NoError
    /\ now \in Clock
    /\ rcall \in [fn : {""}, step : HandlerSteps]
    /\ rret = Return(<<>>)
    /\ resolutions = <<>>
    /\ vcfg = NoConfig
    /\ vrun = NoValidation
    /\ env = NoEnvelope
    /\ runs = NoRun
    /\ fleet = NoFleet

\* the call fn of the drawn step gives one of the outcomes
Called(fn, outcomes) ==
    /\ pc = "calling"
    /\ rcall.fn = ""
    /\ rcall' = [rcall EXCEPT !.fn = fn]
    /\ rret' \in outcomes
    /\ UNCHANGED <<engineVars, now, resolutions, validationVars, env,
                   instanceVars>>

ExtractorExtract ==
    /\ rcall.step.step_type = "extract"
    /\ Called("Extractor.extract",
              Extractor_extract(rcall.step, step_outputs, now))

LoaderLoad ==
    /\ rcall.step.step_type = "load"
    /\ Called("Loader.load", Loader_load(rcall.step, step_outputs))

\* an extract handler, called as the table would
ExtractHandler ==
    /\ rcall.step.step_type = "extract"
    /\ \E method \in ExtractHandlers :
         Called(method, ExtractMethod(method, rcall.step, step_outputs, now))

\* a load handler, called as the table would
LoadHandler ==
    /\ rcall.step.step_type = "load"
    /\ \E method \in LoadHandlers :
         Called(method, LoadMethod(method, rcall.step, step_outputs))

NextHandlers == ExtractorExtract \/ LoaderLoad \/ ExtractHandler \/ LoadHandler

SpecHandlers == InitHandlers /\ [][NextHandlers]_vars

\* C23: a handler that returns has done its work: an extract handler returns
\* a StreamData, a load handler the DestinationResponse of a completed
\* delivery; None or the response of a failed delivery is never returned
C23_HandlersFailByRaising ==
    (rcall.fn \in ExtractHandlers \cup LoadHandlers /\ ~rret.raised)
        => IF rcall.fn \in ExtractHandlers
           THEN /\ rret.value /= NoneValue
                /\ rret.value.data_format \in
                     {"dataframe", "file_path", "file_buffer", "python_string",
                      "python_int", "python_list", "python_dict"}
           ELSE /\ rret.value /= NoResponse
                /\ rret.value.status = "success"

\* C24: every protocol a validated extract step can carry (sql, smb, sftp,
\* google_drive) is in the extract table and every protocol a validated load
\* step can carry (smtp, smb, sftp, google_drive) is in the load table; the
\* dispatch of a validated step never fails for lack of a handler
C24_DispatchTablesCoverProtocols ==
    rcall.fn \in {"Extractor.extract", "Loader.load"}
        => /\ rcall.step.protocol \in
                 IF rcall.step.step_type = "extract"
                 THEN DOMAIN Extractor_protocol_to_method
                 ELSE DOMAIN Loader_protocol_to_method
           /\ ~(rret.raised /\ rret.error.type = "KeyError"
                  /\ rret.error.args = <<rcall.step.protocol>>)

-----------------------------------------------------------------------------
(* datastream.py DataStream._validate_config, under LogAndTerminate: the    *)
(* validation of a task-based stream.  A dependency is a path, kept as its  *)
(* tokens; an error message is kept as the strings it is joined from.       *)

MaxTasks == 2

\* the sources and destinations config.py defines; `valid` is what
\* Source(**s) / Destination(**d) will make of the definition
avail_sources ==
    [db1 |-> [type |-> "sql", valid |-> TRUE],
     share |-> [type |-> "fileshare", valid |-> TRUE],
     old_share |-> [type |-> "fileshare", valid |-> FALSE]]

avail_destinations == [sftp_server |-> [type |-> "sftp", valid |-> TRUE]]

ExtractTask(name, source, dependencies) ==
    [name |-> name, source |-> source, dependencies |-> dependencies]

LoadTask(name, destination) == [name |-> name, destination |-> destination]

ExtractTaskCatalog ==
    { ExtractTask("grades", "db1", << <<"grades", ".sql">> >>),
      ExtractTask("students", "db1",
                  << <<"students", ".txt">>, <<"roster", ".csv">> >>),
      ExtractTask("export", "share", << <<"/", "export", ".csv">> >>),
      ExtractTask("legacy", "ghost", << <<"legacy", ".sql">> >>),
      ExtractTask("scans", "old_share", << <<"scans", ".pdf">> >>) }

LoadTaskCatalog ==
    { LoadTask("send", "sftp_server"), LoadTask("mail", "phantom") }

\* extract_tasks is a dict: its keys, the task names, are distinct
ExtractTaskLists ==
    { l \in UNION { [1..n -> ExtractTaskCatalog] : n \in 1..MaxTasks } :
        \A i, j \in DOMAIN l : i /= j => l[i].name /= l[j].name }

LoadTaskLists == { <<>> } \cup { <<t>> : t \in LoadTaskCatalog }

\* str.endswith on the tokens of a path
EndsWith(value, suffix) == Len(value) > 0 /\ value[Len(value)] = suffix

\* the names of a set, in the order a message lists them
RECURSIVE Listed(_)
Listed(S) ==
    IF S = {} THEN <<>>
    ELSE LET n == CHOOSE x \in S : TRUE IN <<n>> \o Listed(S \ {n})

used_source_names(cfg) ==
    { cfg.extract_tasks[i].source : i \in DOMAIN cfg.extract_tasks }

used_dest_names(cfg) ==
    { cfg.load_tasks[i].destination : i \in DOMAIN cfg.load_tasks }

\* _check_for_missing_definitions: one error for all the undefined names
_check_for_missing_definitions(cfg) ==
    LET no_sources == used_source_names(cfg) \ DOMAIN avail_sources
        no_dests == used_dest_names(cfg) \ DOMAIN avail_destinations
        issues ==
            (IF no_sources /= {}
             THEN <<"Stream references undefined sources:">>
                      \o Listed(no_sources)
             ELSE <<>>)
            \o (IF no_dests /= {}
                THEN <<"Stream references undefined destinations:">>
                         \o Listed(no_dests)
                ELSE <<>>)
    IN IF issues /= <<>> THEN Raise("ValueError", issues)
       ELSE Return(<<>>)

\* the issue _validate_dependencies appends for one dependency
DependencyIssue(task, dep) ==
    "Extract task " \o task.name \o " got " \o Join(dep)

\* the dependencies of one task its source type does not accept
BadDependencies(task, type) ==
    LET deps == task.dependencies
    IN SelectSeq(deps,
         LAMBDA dep :
           IF type = "sql" THEN ~EndsWith(dep, ".sql")
           ELSE IF type \in {"fileshare", "sftp"}
           THEN StartsWith(dep, "/") \/ EndsWith(dep, "/")
           ELSE IF type = "google_drive" THEN dep = <<>>
           ELSE FALSE)

TaskIssues(task) ==
    LET bad == BadDependencies(task, avail_sources[task.source].type)
    IN [k \in DOMAIN bad |-> DependencyIssue(task, bad[k])]

\* _validate_dependencies: the raise and the return stand inside the loop
\* over the tasks, so the first task decides
_validate_dependencies(cfg) ==
    LET issues == TaskIssues(cfg.extract_tasks[1])
    IN IF issues /= <<>> THEN Raise("ValueError", issues) ELSE Return(<<>>)


\* mutant: the sources are validated before the missing definitions are
\* looked for
ValidationOrderSourcesFirst ==
    <<"_validate_stream", "_validate_sources",
      "_check_for_missing_definitions", "_validate_dependencies",
      "_validate_destinations", "_validate_transform_function",
      "_validate_email_builders">>

\* _validate_config: the calls of its body, top to bottom
ValidationOrder ==
    <<"_validate_stream", "_check_for_missing_definitions",
      "_validate_sources", "_validate_dependencies",
      "_validate_destinations", "_validate_transform_function",
      "_validate_email_builders">>

\* the call that follows the n calls made so far; after the last one
\* _validate_config returns its ValidatedConfig
NextCheck(n) ==
    IF n < Len(ValidationOrder) THEN ValidationOrder[n + 1] ELSE "returned"

\* the check at hand is vrun.pc
AtCheck(name) == vrun.pc = name

\* a check passed, having built the models `models`
CheckPasses(name, models) ==
    /\ vrun' = [vrun EXCEPT !.pc = NextCheck(Len(vrun.trace) + 1),
                            !.trace = Append(vrun.trace, name),
                            !.built = vrun.built \cup models]
    /\ UNCHANGED <<vcfg, engineVars, now, resolutions, resolverVars, env, instanceVars>>

\* a check raised e, having built the models `models`: LogAndTerminate
\* logs the exception and the process exits
CheckRaises(name, e, models) ==
    /\ vrun' = [vrun EXCEPT !.pc = "exited",
                            !.trace = Append(vrun.trace, name),
                            !.built = vrun.built \cup models,
                            !.err = e]
    /\ UNCHANGED <<vcfg, engineVars, now, resolutions, resolverVars, env, instanceVars>>

\* _validate_stream: Stream(**stream_dict)
ValidateStream ==
    /\ AtCheck("_validate_stream")
    /\ IF vcfg.stream_ok
       THEN CheckPasses("_validate_stream", {"Stream"})
       ELSE CheckRaises("_validate_stream",
                        [type |-> "ValidationError", args |-> <<"Stream">>],
                        {})

CheckForMissingDefinitions ==
    /\ AtCheck("_check_for_missing_definitions")
    /\ LET r == _check_for_missing_definitions(vcfg)
       IN IF r.raised
          THEN CheckRaises("_check_for_missing_definitions", r.error, {})
          ELSE CheckPasses("_check_for_missing_definitions", {})

\* the models of the names of `used` that `avail` defines validly
Models(kind, used, avail) ==
    { kind \o n : n \in { u \in used \cap DOMAIN avail : avail[u].valid } }

\* {name: avail[name] for name in used_names}, then a model of each: a name
\* without a definition fails the first comprehension, an invalid
\* definition fails the second after the models a set's order put before it
ValidateUsed(name, kind, used, avail) ==
    IF used \ DOMAIN avail /= {}
    THEN \E n \in used \ DOMAIN avail :
           CheckRaises(name, [type |-> "KeyError", args |-> <<n>>], {})
    ELSE IF \E n \in used : ~avail[n].valid
    THEN \E done \in SUBSET Models(kind, used, avail) :
           CheckRaises(name,
                       [type |-> "ValidationError", args |-> <<kind>>], done)
    ELSE CheckPasses(name, Models(kind, used, avail))

\* _validate_sources
ValidateSources ==
    /\ AtCheck("_validate_sources")
    /\ ValidateUsed("_validate_sources", "Source:",
                    used_source_names(vcfg), avail_sources)

ValidateDependencies ==
    /\ AtCheck("_validate_dependencies")
    /\ LET r == _validate_dependencies(vcfg)
       IN IF r.raised
          THEN CheckRaises("_validate_dependencies", r.error, {})
          ELSE CheckPasses("_validate_dependencies", {})

\* _validate_destinations
ValidateDestinations ==
    /\ AtCheck("_validate_destinations")
    /\ ValidateUsed("_validate_destinations", "Destination:",
                    used_dest_names(vcfg), avail_destinations)

\* _validate_transform_function: TransformFunc(function=transform_fn)
ValidateTransformFunction ==
    /\ AtCheck("_validate_transform_function")
    /\ IF vcfg.transform_ok
       THEN CheckPasses("_validate_transform_function", {"TransformFunc"})
       ELSE CheckRaises("_validate_transform_function",
                        [type |-> "ValidationError",
                         args |-> <<"TransformFunc">>], {})

\* _validate_email_builders: EmailBuilder(function=func) of each builder
ValidateEmailBuilders ==
    /\ AtCheck("_validate_email_builders")
    /\ IF vcfg.email_ok
       THEN CheckPasses("_validate_email_builders", {"EmailBuilder"})
       ELSE CheckRaises("_validate_email_builders",
                        [type |-> "ValidationError",
                         args |-> <<"EmailBuilder">>], {})

\* DataStream.__init__ is about to call _validate_config on what main.py
\* handed it
InitValidate ==
    /\ steps = <<>>
    /\ pc = "validating"
    /\ idx = 1
    /\ status = "running"
    /\ end_time = NoTime
    /\ step_outputs = <<>>
    /\ dest_responses = <<>>
    /\ started = <<>>
    /\ handled = <<>>
    /\ failed_at = 0
    /\ err = NoError
    /\ now \in Clock
    /\ rcall = NoCall
    /\ rret = Return(<<>>)
    /\ resolutions = <<>>
    /\ vcfg \in [stream_ok : BOOLEAN, extract_tasks : ExtractTaskLists,
                 load_tasks : LoadTaskLists, transform_ok : BOOLEAN,
                 email_ok : BOOLEAN]
    /\ vrun = [pc |-> ValidationOrder[1], trace |-> <<>>, built |-> {},
               err |-> NoError]
    /\ env = NoEnvelope
    /\ runs = NoRun
    /\ fleet = NoFleet

NextValidate ==
    \/ ValidateStream
    \/ CheckForMissingDefinitions
    \/ ValidateSources
    \/ ValidateDependencies
    \/ ValidateDestinations
    \/ ValidateTransformFunction
    \/ ValidateEmailBuilders

SpecValidate == InitValidate /\ [][NextValidate]_vars


-----------------------------------------------------------------------------
(* The validation of a configuration: claims *)

\* _validate_config is over: it returned, or it raised and the process exited
ValidationDone == vrun.pc \in {"returned", "exited"}

UndefinedNames(cfg) ==
    (used_source_names(cfg) \ DOMAIN avail_sources)
    \cup (used_dest_names(cfg) \ DOMAIN avail_destinations)

\* the dependency defects of the tasks whose source is defined
DependencyDefects(cfg) ==
    UNION { { TaskIssues(cfg.extract_tasks[i])[k] :
                k \in DOMAIN TaskIssues(cfg.extract_tasks[i]) } :
            i \in { j \in DOMAIN cfg.extract_tasks :
                      cfg.extract_tasks[j].source \in DOMAIN avail_sources } }

\* every defect of a configuration, each under the string that a message
\* reporting it holds
Defects(cfg) ==
    UndefinedNames(cfg)
    \cup DependencyDefects(cfg)
    \cup (IF cfg.stream_ok THEN {} ELSE {"Stream"})
    \cup (IF \E n \in used_source_names(cfg) \cap DOMAIN avail_sources :
               ~avail_sources[n].valid
          THEN {"Source:"} ELSE {})
    \cup (IF cfg.transform_ok THEN {} ELSE {"TransformFunc"})
    \cup (IF cfg.email_ok THEN {} ELSE {"EmailBuilder"})

\* what the message of an error holds
Reported(e) == { e.args[k] : k \in DOMAIN e.args }

\* C11: the validation of a configuration with defects ends in one error
\* whose message enumerates every one of them; it neither returns nor stops
\* at the first task or the first defect
C11_AllDefectsInOneError ==
    (ValidationDone /\ Defects(vcfg) /= {})
        => /\ vrun.pc = "exited"
           /\ Defects(vcfg) \subseteq Reported(vrun.err)

\* C12: _validate_config makes its checks in the order stream, missing
\* definitions, sources, dependencies, destinations, transform function,
\* email builders; so a valid stream that names an undefined source or
\* destination ends in the one ValueError that lists every undefined name,
\* with no Source or Destination built and no KeyError
C12_MissingDefinitionsBeforeModels ==
    LET order == <<"_validate_stream", "_check_for_missing_definitions",
                   "_validate_sources", "_validate_dependencies",
                   "_validate_destinations", "_validate_transform_function",
                   "_validate_email_builders">>
    IN /\ Len(vrun.trace) <= Len(order)
       /\ \A k \in DOMAIN vrun.trace : vrun.trace[k] = order[k]
       /\ vrun.pc = "returned" => vrun.trace = order
       /\ (ValidationDone /\ vcfg.stream_ok /\ UndefinedNames(vcfg) /= {})
            => /\ vrun.pc = "exited"
               /\ vrun.err.type = "ValueError"
               /\ UndefinedNames(vcfg) \subseteq Reported(vrun.err)
               /\ vrun.built = {"Stream"}

\* a stream naming an undefined source and an undefined destination has
\* been through _validate_config
C12_Witness ==
    /\ ValidationDone
    /\ vcfg.stream_ok
    /\ used_source_names(vcfg) \ DOMAIN avail_sources /= {}
    /\ used_dest_names(vcfg) \ DOMAIN avail_destinations /= {}
    /\ Len(vrun.trace) = 2


-----------------------------------------------------------------------------
(* datastream2.py create_data_stream, under LogAndTerminate: the raw steps  *)
(* of a stream are hydrated, validated by models.py and handed to a         *)
(* DataStream, whose run() main.py then calls.                              *)

\* config["sources"], config["destinations"] and the function registry
defined_sources == {"db1", "db2", "fileshare"}
defined_dests == {"sftp_server", "sftp_backup", "fileshare"}
raw_functions == {"format_fn"}

\* a step as config.py writes it: the names of its source, destination and
\* function, its path with placeholders
RawStep(step, path, path_params, function) ==
    [step |-> step, path |-> path, path_params |-> path_params,
     function |-> function]

DateParam == <<Param("date", <<"macro:", "YYYYMMDD">>)>>

RawStepCatalog ==
    { RawStep(ExtractStepConfig("get_data", "sql", "db1", "raw",
                                <<Param("campus_code", <<"123">>)>>),
              <<"queries/", "grades", ".sql">>, <<>>, ""),
      RawStep(ExtractStepConfig("get_ids", "sql", "db2", "ids",
                                <<Param("ids", <<"step:", "raw">>)>>),
              <<"queries/", "ids", ".sql">>, <<>>, ""),
      RawStep(ExtractStepConfig("get_file", "smb", "fileshare", "report",
                                <<>>),
              <<"exports/", "report.csv">>, <<>>, ""),
      RawStep(TransformStepConfig("format", {"raw"}, {"report"}),
              <<>>, <<>>, "format_fn"),
      RawStep(LoadStepConfig("send_data", "sftp", "sftp_server", "raw"),
              <<"incoming/", "::date::", "/raw.csv">>, DateParam, ""),
      RawStep(LoadStepConfig("archive", "smb", "fileshare", "report"),
              <<"archive/", "::date::", "/report.csv">>, DateParam, ""),
      \* an undefined source
      RawStep(ExtractStepConfig("get_old", "sql", "db9", "raw", <<>>),
              <<"queries/", "old", ".sql">>, <<>>, ""),
      \* a protocol outside the known set
      RawStep(ExtractStepConfig("get_ftp", "ftp", "db1", "raw", <<>>),
              <<"exports/", "raw.csv">>, <<>>, ""),
      \* a query file without the .sql extension
      RawStep(ExtractStepConfig("get_txt", "sql", "db1", "raw", <<>>),
              <<"queries/", "grades", ".txt">>, <<>>, ""),
      \* an unregistered function
      RawStep(TransformStepConfig("reshape", {"raw"}, {"report"}),
              <<>>, <<>>, "reshape_fn"),
      \* an absolute remote path
      RawStep(LoadStepConfig("send_abs", "sftp", "sftp_server", "raw"),
              <<"/", "incoming/", "raw.csv">>, <<>>, "") }

RawPipelines == UNION { [1..n -> RawStepCatalog] : n \in 1..MaxSteps }

\* dict.get: None for a name the dict does not hold
Get(names, name) == IF name \in names THEN name ELSE "None"

_hydrate_step(raw, t) ==
    [step |-> [raw.step EXCEPT
                 !.config =
                    IF raw.step.step_type = "extract"
                    THEN Get(defined_sources, raw.step.config)
                    ELSE IF raw.step.step_type = "load"
                    THEN Get(defined_dests, raw.step.config)
                    ELSE raw.step.config],
     path |-> _resolve_path_from_params(raw.path, raw.path_params, t),
     path_params |-> raw.path_params,
     function |-> IF raw.step.step_type = "transform"
                  THEN Get(raw_functions, raw.function)
                  ELSE raw.function]

\* validate_is_relative_path_str
IsRelativePath(v) == ~(StartsWith(v, "/") \/ EndsWith(v, "/"))

\* the step models of models.py: what one hydrated step must satisfy
StepValid(h) ==
    IF h.step.step_type = "extract"
    THEN /\ h.step.protocol \in {"sql", "sftp", "smb", "google_drive"}
         /\ h.step.config /= "None"
         /\ IsRelativePath(h.path)
         /\ h.step.protocol = "sql" => EndsWith(h.path, ".sql")
    ELSE IF h.step.step_type = "load"
    THEN /\ h.step.protocol \in {"smtp", "sftp", "smb", "google_drive"}
         /\ h.step.config /= "None"
         /\ h.step.protocol /= "smtp" => IsRelativePath(h.path)
    ELSE h.function /= "None"

\* mutant: only the first step of the list is validated
StreamFirstStepOnly(hydrated) ==
    IF ~StepValid(hydrated[1])
    THEN Raise("ValidationError", <<hydrated[1].step.step_name>>)
    ELSE Return([k \in DOMAIN hydrated |-> hydrated[k].step])

\* Stream(**stream): every step of the list is validated
Stream(hydrated) ==
    LET invalid == { k \in DOMAIN hydrated : ~StepValid(hydrated[k]) }
    IN IF invalid /= {}
       THEN Raise("ValidationError",
                  <<hydrated[CHOOSE k \in invalid : TRUE].step.step_name>>)
       ELSE Return([k \in DOMAIN hydrated |-> hydrated[k].step])

\* no DataStream, so no DataStore
NoStore == "None"

CreateDataStream ==
    /\ pc = "creating"
    /\ LET hydrated_stream_steps ==
               [k \in DOMAIN vcfg.steps |-> _hydrate_step(vcfg.steps[k], now)]
           validated_stream_config == Stream(hydrated_stream_steps)
       IN IF validated_stream_config.raised
          THEN /\ pc' = LogAndTerminate(0).pc
               /\ err' = validated_stream_config.error
               /\ UNCHANGED <<steps, status>>
          ELSE \* DataStream(...): the DataStore with its defaults
               /\ pc' = "running"
               /\ steps' = validated_stream_config.value
               /\ status' = "running"
               /\ UNCHANGED err
    /\ UNCHANGED <<idx, end_time, step_outputs, dest_responses, started,
                   handled, failed_at, now, resolutions, resolverVars,
                   validationVars, env, instanceVars>>

\* main.py is about to call create_data_stream
InitCreate ==
    /\ steps = <<>>
    /\ pc = "creating"
    /\ idx = 1
    /\ status = NoStore
    /\ end_time = NoTime
    /\ step_outputs = <<>>
    /\ dest_responses = <<>>
    /\ started = <<>>
    /\ handled = <<>>
    /\ failed_at = 0
    /\ err = NoError
    /\ now \in Clock
    /\ rcall = NoCall
    /\ rret = Return(<<>>)
    /\ resolutions = <<>>
    /\ vcfg \in [steps : RawPipelines]
    /\ vrun = NoValidation
    /\ env = NoEnvelope
    /\ runs = FirstRun
    /\ fleet = NoFleet

NextCreate == CreateDataStream \/ Extract \/ Transform \/ Load \/ Finish

SpecCreate == InitCreate /\ [][NextCreate]_vars

\* the configuration of the stream fails the validation in some step
ValidationFails ==
    \E k \in DOMAIN vcfg.steps : ~StepValid(_hydrate_step(vcfg.steps[k], now))

\* C13: when the validation of any step, source or destination fails,
\* create_data_stream raises before a DataStream and its store exist, and no
\* extractor, transform function or loader is ever invoked
C13_InvalidConfigRunsNothing ==
    ValidationFails
        => /\ pc \in {"creating", "exited"}
           /\ status = NoStore
           /\ steps = <<>>
           /\ started = <<>> /\ handled = <<>>
           /\ step_outputs = <<>> /\ dest_responses = <<>>
           /\ pc = "exited" => err.type = "ValidationError"

\* create_data_stream has raised on a stream whose first step is valid and
\* whose later step is not
C13_Witness ==
    /\ pc = "exited"
    /\ err.type = "ValidationError"
    /\ Len(vcfg.steps) > 1
    /\ StepValid(_hydrate_step(vcfg.steps[1], now))


-----------------------------------------------------------------------------
(* models.py StreamData: the construction of an envelope.  A content is     *)
(* known by its Python type.                                                *)

\* the Literal of data_format
DataFormats ==
    {"dataframe", "file_path", "file_buffer", "python_string", "python_int",
     "python_list", "python_dict"}

\* the Union of content
UnionTypes == {"DataFrame", "Path", "BytesIO", "str", "int", "list", "dict"}

\* what a caller may hand to StreamData(...): the tags of the Literal, the
\* tag the _template functions use and the tag _smtp_load asks for; the
\* types of the Union, None and an email Message
GivenFormats == DataFormats \cup {"in_memory_stream", "email_message"}
GivenTypes == UnionTypes \cup {"NoneType", "Message"}

\* mutant: the validator without its last check, the one of python_dict
check_content_type_without_dict(data_format, content_type) ==
    IF data_format = "file_buffer" /\ content_type /= "BytesIO"
    THEN Raise("ValueError", <<"file_buffer">>)
    ELSE IF data_format = "dataframe" /\ content_type /= "DataFrame"
    THEN Raise("ValueError", <<"dataframe">>)
    ELSE IF data_format = "file_path" /\ content_type /= "Path"
    THEN Raise("ValueError", <<"file_path">>)
    ELSE IF data_format = "python_string" /\ content_type /= "str"
    THEN Raise("ValueError", <<"python_string">>)
    ELSE IF data_format = "python_int" /\ content_type /= "int"
    THEN Raise("ValueError", <<"python_int">>)
    ELSE IF data_format = "python_list" /\ content_type /= "list"
    THEN Raise("ValueError", <<"python_list">>)
    ELSE Return(<<>>)

\* the model validator, run after the fields are validated
check_content_type_matches_format(data_format, content_type) ==
    IF data_format = "file_buffer" /\ content_type /= "BytesIO"
    THEN Raise("ValueError", <<"file_buffer">>)
    ELSE IF data_format = "dataframe" /\ content_type /= "DataFrame"
    THEN Raise("ValueError", <<"dataframe">>)
    ELSE IF data_format = "file_path" /\ content_type /= "Path"
    THEN Raise("ValueError", <<"file_path">>)
    ELSE IF data_format = "python_string" /\ content_type /= "str"
    THEN Raise("ValueError", <<"python_string">>)
    ELSE IF data_format = "python_int" /\ content_type /= "int"
    THEN Raise("ValueError", <<"python_int">>)
    ELSE IF data_format = "python_list" /\ content_type /= "list"
    THEN Raise("ValueError", <<"python_list">>)
    ELSE IF data_format = "python_dict" /\ content_type /= "dict"
    THEN Raise("ValueError", <<"python_dict">>)
    ELSE Return(<<>>)

\* StreamData(data_format=..., content=...): the fields, then the validator
StreamDataNew(data_format, content_type) ==
    IF data_format \notin DataFormats
    THEN Raise("ValidationError", <<"data_format">>)
    ELSE IF content_type \notin UnionTypes
    THEN Raise("ValidationError", <<"content">>)
    ELSE LET checked ==
                 check_content_type_matches_format(data_format, content_type)
         IN IF checked.raised THEN checked
            ELSE Return(StreamData(data_format,
                                   [type |-> content_type, val |-> <<>>]))

\* a handler or a transform function constructs an envelope
Construct ==
    /\ pc = "constructing"
    /\ \E data_format \in GivenFormats, content_type \in GivenTypes :
         env' = [data_format |-> data_format, content_type |-> content_type,
                 made |-> IF StreamDataNew(data_format, content_type).raised
                          THEN "raised" ELSE "instance"]
    /\ UNCHANGED <<engineVars, now, resolutions, resolverVars,
                   validationVars, instanceVars>>

\* DataStream.run stores what the handler or the function returned
StoreEnvelope ==
    /\ pc = "constructing"
    /\ env.made = "instance"
    /\ \E alias \in Aliases :
         step_outputs' =
            Update(step_outputs,
                   alias :> StreamDataNew(env.data_format,
                                          env.content_type).value)
    /\ UNCHANGED <<steps, pc, idx, status, end_time, dest_responses, started,
                   handled, failed_at, err, now, resolutions, resolverVars,
                   validationVars, env, instanceVars>>

InitEnvelope ==
    /\ steps = <<>>
    /\ pc = "constructing"
    /\ idx = 1
    /\ status = "running"
    /\ end_time = NoTime
    /\ step_outputs = <<>>
    /\ dest_responses = <<>>
    /\ started = <<>>
    /\ handled = <<>>
    /\ failed_at = 0
    /\ err = NoError
    /\ now = NoTime
    /\ rcall = NoCall
    /\ rret = Return(<<>>)
    /\ resolutions = <<>>
    /\ vcfg = NoConfig
    /\ vrun = NoValidation
    /\ env = NoEnvelope
    /\ runs = NoRun
    /\ fleet = NoFleet

NextEnvelope == Construct \/ StoreEnvelope

SpecEnvelope == InitEnvelope /\ [][NextEnvelope]_vars

\* the content type each data_format stands for
Matches(data_format, content_type) ==
    <<data_format, content_type>> \in
        { <<"dataframe", "DataFrame">>, <<"file_path", "Path">>,
          <<"file_buffer", "BytesIO">>, <<"python_string", "str">>,
          <<"python_int", "int">>, <<"python_list", "list">>,
          <<"python_dict", "dict">> }

=============================================================================
